---------------------------- MODULE Spec2Model ----------------------------
(***************************************************************************)
(* The configuration synchronisation engine of src/providers/AWSAppConfig  *)
(* (class AWSAppConfig): profile discovery, per-profile poll loops, the    *)
(* token / hash / timer maps, the configuration cache and its lookups.     *)
(*                                                                         *)
(* One action is one run of JavaScript between two awaits: a public call,  *)
(* a timer callback, or the continuation that runs when a provider         *)
(* response arrives (including every promise continuation that the         *)
(* response settles, which Node runs as microtasks before anything else).  *)
(* The provider is the environment: each response is chosen from bounded   *)
(* sets.                                                                   *)
(***************************************************************************)
EXTENDS Integers, Sequences, FiniteSets, TLC

(***************************************************************************)
(* Bounds of the model.                                                    *)
(***************************************************************************)
\* discovery cycles (#discoverProfiles invocations) in one run
MaxCycles == 2
\* getLatest requests issued in one run
MaxPulls == 2

(***************************************************************************)
(* Bounded input sets.                                                     *)
(***************************************************************************)
\* the profile names the provider may list
Names == {"dev4_x", "other_y"}
\* the calls of start() a run may make, by index
StartCalls == {1}
\* the values given to setConfigPrefix
Prefixes == {"", "dev4_"}
\* the names a caller looks up with getConfig
LookupNames == {"x", "dev4_x", "other_y", "constructor"}
\* InitialConfigurationToken / NextPollConfigurationToken values
InitialToken == "t0"
NextTokens == {"t1"}
\* decoded payloads of a getLatest response
Payloads == {"{\"a\":1}", "{\"a\":2}", "{\"a\":", " "}
\* ContentType of a getLatest response
ContentTypes == {"application/json"}

\* absent value of an optional string field
None == "<none>"

(***************************************************************************)
(* Text helpers.                                                           *)
(***************************************************************************)
Char(s, i) == SubSeq(s, i, i)

\* String.prototype.startsWith
StartsWith(s, pfx) == Len(pfx) <= Len(s) /\ SubSeq(s, 1, Len(pfx)) = pfx

\* String.prototype.includes
Includes(s, sub) ==
    \E i \in 1..(Len(s) - Len(sub) + 1) : SubSeq(s, i, i + Len(sub) - 1) = sub

IsSpace(c) == c \in {" ", "\t", "\n", "\r"}

RECURSIVE TrimStart(_)
TrimStart(s) ==
    IF Len(s) > 0 /\ IsSpace(Char(s, 1)) THEN TrimStart(SubSeq(s, 2, Len(s))) ELSE s

RECURSIVE TrimEnd(_)
TrimEnd(s) ==
    IF Len(s) > 0 /\ IsSpace(Char(s, Len(s)))
    THEN TrimEnd(SubSeq(s, 1, Len(s) - 1)) ELSE s

\* String.prototype.trim
Trim(s) == TrimEnd(TrimStart(s))

UpperCase == "ABCDEFGHIJKLMNOPQRSTUVWXYZ"
LowerCase == "abcdefghijklmnopqrstuvwxyz"

LowerChar(c) ==
    IF \E i \in 1..Len(UpperCase) : Char(UpperCase, i) = c
    THEN Char(LowerCase, CHOOSE i \in 1..Len(UpperCase) : Char(UpperCase, i) = c)
    ELSE c

RECURSIVE ToLowerCase(_)
\* String.prototype.toLowerCase
ToLowerCase(s) ==
    IF Len(s) = 0 THEN s
    ELSE LowerChar(Char(s, 1)) \o ToLowerCase(SubSeq(s, 2, Len(s)))

\* the ASCII characters of codes 32..95 and 97..126, in code order
AsciiLow == " !\"#$%&'()*+,-./0123456789:;<=>?@ABCDEFGHIJKLMNOPQRSTUVWXYZ[\\]^_"
AsciiHigh == "abcdefghijklmnopqrstuvwxyz{|}~"

\* String.prototype.charCodeAt
CharCode(c) ==
    IF \E i \in 1..Len(AsciiLow) : Char(AsciiLow, i) = c
    THEN 31 + CHOOSE i \in 1..Len(AsciiLow) : Char(AsciiLow, i) = c
    ELSE 96 + CHOOSE i \in 1..Len(AsciiHigh) : Char(AsciiHigh, i) = c

HexDigits == "0123456789abcdef"

RECURSIVE ToHex(_)
\* Number.prototype.toString(16) of a non-negative integer
ToHex(n) ==
    IF n < 16 THEN Char(HexDigits, n + 1)
    ELSE ToHex(n \div 16) \o Char(HexDigits, (n % 16) + 1)

Pad4(s) == SubSeq("0000", 1, 4 - Len(s)) \o s

(***************************************************************************)
(* stableHash: h = 5381; h = ((h << 5) + h) + code for every character;    *)
(* result (h >>> 0).toString(16).  (h << 5) is the 32-bit value of 32h, so *)
(* every step keeps h congruent to 33h + code modulo 2^32, and h >>> 0     *)
(* is h modulo 2^32.  The 32-bit word is kept as two 16-bit halves.        *)
(***************************************************************************)
HashStep(h, code) ==
    LET lo == 33 * h.lo + code
    IN  [lo |-> lo % 65536, hi |-> (33 * h.hi + (lo \div 65536)) % 65536]

RECURSIVE HashLoop(_, _, _)
HashLoop(h, str, i) ==
    IF i > Len(str) THEN h
    ELSE HashLoop(HashStep(h, CharCode(Char(str, i))), str, i + 1)

HashOf(str) ==
    LET h == HashLoop([lo |-> 5381, hi |-> 0], str, 1)
    IN  IF h.hi = 0 THEN ToHex(h.lo) ELSE ToHex(h.hi) \o Pad4(ToHex(h.lo))

\* the digests of the payloads of the model, computed once
HashTable == [raw \in Payloads |-> HashOf(raw)]

stableHash(str) == IF str \in Payloads THEN HashTable[str] ELSE HashOf(str)

(***************************************************************************)
(* Parsed values: a JSON object with one numeric member, a number, a       *)
(* string, null and undefined, all in one record shape.                    *)
(***************************************************************************)
ObjVal(k, v) == [t |-> "object", k |-> k, v |-> v, s |-> ""]
NumVal(v)    == [t |-> "number", k |-> "", v |-> v, s |-> ""]
StrVal(s)    == [t |-> "string", k |-> "", v |-> 0, s |-> s]
Null         == [t |-> "null", k |-> "", v |-> 0, s |-> ""]
Undefined    == [t |-> "undefined", k |-> "", v |-> 0, s |-> ""]

Digits == "0123456789"
IsDigit(c) == \E i \in 1..10 : Char(Digits, i) = c
DigitVal(c) == (CHOOSE i \in 1..10 : Char(Digits, i) = c) - 1
IsLetter(c) == \E i \in 1..26 : Char(LowerCase, i) = c

(***************************************************************************)
(* JSON.parse on the texts of the model: surrounding white space is        *)
(* skipped; a single digit is a number; {"k":d} (k a letter, d a digit)    *)
(* is an object; every other text of Payloads is a syntax error.           *)
(***************************************************************************)
JSONparse(raw) ==
    LET s == Trim(raw)
    IN  IF Len(s) = 1 /\ IsDigit(s)
        THEN [ok |-> TRUE, value |-> NumVal(DigitVal(s))]
        ELSE IF /\ Len(s) = 7
                /\ SubSeq(s, 1, 2) = "{\""
                /\ IsLetter(Char(s, 3))
                /\ SubSeq(s, 4, 5) = "\":"
                /\ IsDigit(Char(s, 6))
                /\ Char(s, 7) = "}"
        THEN [ok |-> TRUE, value |-> ObjVal(Char(s, 3), DigitVal(Char(s, 6)))]
        ELSE [ok |-> FALSE, value |-> Undefined]

\* yaml.load on the texts of the model: a flow mapping {"k":d} and a digit
\* load as in JSON, an unterminated flow mapping is a YAMLException, and
\* white space alone loads as undefined.
yamlLoad(raw) ==
    IF Trim(raw) = "" THEN [ok |-> TRUE, value |-> Undefined] ELSE JSONparse(raw)

(***************************************************************************)
(* parseConfig(raw, contentType): ok = FALSE stands for the exception.     *)
(***************************************************************************)
ParseOf(raw, contentType) ==
    LET ct == ToLowerCase(IF contentType = None THEN "" ELSE contentType)
    IN  IF Includes(ct, "json") THEN JSONparse(raw)
        ELSE IF Includes(ct, "yaml") \/ Includes(ct, "yml") THEN yamlLoad(raw)
        ELSE IF JSONparse(raw).ok THEN JSONparse(raw)
        ELSE [ok |-> TRUE, value |-> StrVal(raw)]

\* the parses of the payloads of the model, computed once
ParseTable ==
    [raw \in Payloads, ct \in ContentTypes \cup {None} |-> ParseOf(raw, ct)]

parseConfig(raw, contentType) ==
    IF raw \in Payloads /\ contentType \in ContentTypes \cup {None}
    THEN ParseTable[raw, contentType]
    ELSE ParseOf(raw, contentType)

\* raw.trim() !== "" for the payloads of the model, computed once
BlankTable == [raw \in Payloads |-> Trim(raw) = ""]

IsBlank(raw) == IF raw \in Payloads THEN BlankTable[raw] ELSE Trim(raw) = ""

(***************************************************************************)
(* State.                                                                  *)
(***************************************************************************)
VARIABLES
    closed,          \* #closed
    configPrefix,    \* #configPrefix
    timers,          \* #timers: name -> state of the Timeout it holds
    looseTimers,     \* name -> pending Timeouts that #timers no longer holds
    tokens,          \* #tokens
    hashes,          \* #hashes
    configsCache,    \* #configsCache: name -> [parsed, contentType]
    discoveryTimer,  \* #discoveryTimer: "unset", "active" or "cleared"
    looseIntervals,  \* running intervals that #discoveryTimer no longer holds
    errorListener,   \* whether a listener for "error" is registered
    starts,          \* one entry per call of start(): its promise
    cycles,          \* the #discoverProfiles invocations not yet over, or with
                     \* #startProfile calls still running: invocation -> how many
    cyclesRun,       \* #discoverProfiles invocations so far
    timerPulls,      \* name -> getLatest requests in flight, sent by a timer
    pullsIssued,     \* getLatest requests sent so far
    gone,            \* names stopped on "not found" and not started anew since
    log              \* what the last step emitted, requested, armed, received

vars == <<closed, configPrefix, timers, looseTimers, tokens, hashes,
          configsCache, discoveryTimer, looseIntervals, errorListener, starts,
          cycles, cyclesRun, timerPulls, pullsIssued, gone, log>>

(***************************************************************************)
(* Map<string, _> helpers.                                                 *)
(***************************************************************************)
EmptyMap == [n \in {} |-> None]
Has(m, k) == k \in DOMAIN m
MapSet(m, k, v) == [n \in DOMAIN m \cup {k} |-> IF n = k THEN v ELSE m[n]]
MapDelete(m, k) == [n \in DOMAIN m \ {k} |-> m[n]]
Count(m, k) == IF Has(m, k) THEN m[k] ELSE 0
Incr(m, k) == MapSet(m, k, Count(m, k) + 1)
Decr(m, k) == IF Count(m, k) <= 1 THEN MapDelete(m, k) ELSE MapSet(m, k, m[k] - 1)

(***************************************************************************)
(* Provider responses.                                                     *)
(***************************************************************************)
\* ListConfigurationProfiles: the Items of the first page and, when the
\* response carries a NextToken, the profiles of the later pages (rest); or
\* a failure
ListOutcomes ==
    {o \in [ok : {TRUE}, items : SUBSET Names, rest : SUBSET Names] :
        o.items \cap o.rest = {}}
    \cup {[ok |-> FALSE, items |-> {}, rest |-> {}]}

\* StartConfigurationSession: a token, a response without token, a failure
SessionOutcomes ==
    {[kind |-> "token", token |-> InitialToken],
     [kind |-> "notoken", token |-> None],
     [kind |-> "error", token |-> None]}

PullRecord(kind, hasConfig, raw, ct, next) ==
    [kind |-> kind, hasConfig |-> hasConfig, raw |-> raw, ct |-> ct, next |-> next]

\* GetLatestConfiguration: ResourceNotFoundException, another failure, a
\* response without Configuration and with optional next token, or a
\* payload with content type and optional next token
PullOutcomes ==
    {PullRecord("notfound", FALSE, "", None, None),
     PullRecord("error", FALSE, "", None, None)}
    \cup {PullRecord("ok", FALSE, "", None, next) : next \in NextTokens \cup {None}}
    \cup {PullRecord("ok", TRUE, raw, ct, next) :
            raw \in Payloads, ct \in ContentTypes, next \in NextTokens \cup {None}}

(***************************************************************************)
(* The log of one step.                                                    *)
(***************************************************************************)
Event(k, type, profile) == [k |-> k, type |-> type, profile |-> profile]

\* the run of one step: the fields it may write, the log, how its
\* innermost async function ended, and the getLatest requests it sent
Run ==
    [tokens |-> tokens, hashes |-> hashes, cache |-> configsCache,
     timers |-> timers, loose |-> looseTimers, gone |-> gone,
     log |-> << >>, out |-> "none", sent |-> 0]

Logged(e, ev) == [e EXCEPT !.log = Append(@, ev)]

\* this.emit(type, ...) for a type other than "error"
Emit(e, type, profile) == Logged(e, Event("emit", type, profile))

\* this.#data.send / this.#control.send
Request(e, op, profile) == Logged(e, Event("request", op, profile))

\* EventEmitter.emit("error", ...) throws when no listener is registered
EmitErrorThrows == ~errorListener

\* this.#timers.set(profile.Name, setTimeout(...)): the Timeout the map held
\* stays pending when it had not fired
ArmTimer(e, p) ==
    Logged([e EXCEPT
              !.loose = IF Has(e.timers, p) /\ e.timers[p] = "armed"
                        THEN Incr(@, p) ELSE @,
              !.timers = MapSet(@, p, "armed")],
           Event("arm", "poll", p))

\* a stop that also drops the cache entry of the profile
stopProfilePurging(e, p) ==
    [e EXCEPT !.timers = MapDelete(@, p),
              !.tokens = MapDelete(@, p),
              !.hashes = MapDelete(@, p),
              !.cache = MapDelete(@, p)]

\* #stopProfile
stopProfile(e, p) ==
    [e EXCEPT !.timers = MapDelete(@, p),
              !.tokens = MapDelete(@, p),
              !.hashes = MapDelete(@, p)]

\* the catch block of #pollOnce for an error that is not
\* ResourceNotFoundException, and the reschedule after it
PollCatch(e, p) ==
    IF EmitErrorThrows
    THEN [Logged(e, Event("throw", "error", p)) EXCEPT !.out = "rejected"]
    ELSE [ArmTimer(Emit(e, "error", p), p) EXCEPT !.out = "resolved"]

\* a comparison that takes every payload for a change
HashDiffersAlways(hash, currentHash) == TRUE

\* hash !== currentHash
HashDiffers(hash, currentHash) == hash # currentHash

\* an entry built without the parsed payload
EntryWithoutValue(parsed, r) == [parsed |-> Undefined, contentType |-> r.ct]

\* the cache entry built from a response
Entry(parsed, r) == [parsed |-> parsed, contentType |-> r.ct]

\* #pollOnce up to its await
pollOnceEnter(e, p) ==
    LET e1 == Emit(e, "debug", p)
    IN  IF closed THEN [e1 EXCEPT !.out = "resolved"]
        ELSE IF ~Has(e1.tokens, p) THEN PollCatch(e1, p)
        ELSE [Request(e1, "getLatest", p) EXCEPT !.out = "awaiting", !.sent = @ + 1]

\* #pollOnce from the response of getLatest on
pollOnceResume(e, p, r) ==
    IF r.kind = "notfound"
    THEN [stopProfile(Emit(e, "profile_deleted", p), p) EXCEPT
            !.out = "resolved", !.gone = @ \cup {p}]
    ELSE IF r.kind = "error" THEN PollCatch(e, p)
    ELSE IF ~r.hasConfig THEN [e EXCEPT !.out = "resolved"]
    ELSE
      LET hash == stableHash(r.raw)
          currentHash == IF Has(e.hashes, p) THEN e.hashes[p] ELSE None
          changed == ~IsBlank(r.raw) /\ HashDiffers(hash, currentHash)
          parsed == parseConfig(r.raw, r.ct)
          e1 == IF changed
                THEN Emit(Logged([e EXCEPT
                                    !.hashes = MapSet(@, p, hash),
                                    !.cache = MapSet(@, p, Entry(parsed.value, r))],
                                 Event("write", "cache", p)),
                          "update", p)
                ELSE e
          e2 == IF r.next # None
                THEN [e1 EXCEPT !.tokens = MapSet(@, p, r.next)]
                ELSE e1
      IN  IF changed /\ ~parsed.ok THEN PollCatch(e, p)
          ELSE [ArmTimer(e2, p) EXCEPT !.out = "resolved"]

(***************************************************************************)
(* Lookups.                                                                *)
(***************************************************************************)
\* the properties every object literal inherits from Object.prototype
ObjectPrototypeKeys ==
    {"constructor", "toString", "toLocaleString", "valueOf", "hasOwnProperty",
     "isPrototypeOf", "propertyIsEnumerable", "__proto__"}

\* key in obj
InObject(key, obj) == key \in DOMAIN obj \/ key \in ObjectPrototypeKeys

\* obj[key].parsed: an inherited property is a function or an object of the
\* runtime, which has no parsed property
ParsedOf(obj, key) == IF key \in DOMAIN obj THEN obj[key].parsed ELSE Undefined

\* getConfigs(): { ...this.#configsCache } copies the own properties
getConfigs == [n \in DOMAIN configsCache |-> configsCache[n]]

\* getConfig(name, defaultValue)
getConfig(name, defaultValue) ==
    LET realConfigName == configPrefix \o name
    IN  IF InObject(realConfigName, configsCache)
        THEN ParsedOf(configsCache, realConfigName)
        ELSE defaultValue

(***************************************************************************)
(* Discovery.                                                              *)
(***************************************************************************)
\* a discovery that keeps every listed profile
FilterNothing(items) == items

\* profiles.filter(p => p.Name?.startsWith(this.#configPrefix)), applied
\* when the prefix is not the empty string
FilterByPrefix(items) ==
    IF configPrefix # "" THEN {p \in items : StartsWith(p, configPrefix)} ELSE items

\* profiles.filter(p => p.Name && !this.#timers.has(p.Name))
NewProfiles(profiles) == {p \in profiles : p # "" /\ ~Has(timers, p)}

RECURSIVE SeqOf(_)
\* the elements of a set in a fixed order
SeqOf(S) ==
    IF S = {} THEN << >>
    ELSE LET m == CHOOSE a \in S : \A b \in S : Len(a) <= Len(b)
         IN  <<m>> \o SeqOf(S \ {m})

\* a #discoverProfiles invocation: owner is the index of the start() call
\* that awaits it, 0 for a tick of the discovery interval; tasks are the
\* #startProfile calls it made
Cycle(owner, phase, profiles, tasks) ==
    [owner |-> owner, phase |-> phase, profiles |-> profiles, tasks |-> tasks]

\* the first statements of #discoverProfiles: debug, then listProfiles is sent
DiscoverEnter(e) == Request(Emit(e, "debug", "discovery"), "listProfiles", "")

\* a finished invocation keeps only the #startProfile calls still running
Finished(cy, settled) ==
    Cycle(cy.owner, "done", {},
          [q \in {q \in DOMAIN cy.tasks \ settled :
                    cy.tasks[q] \in {"session", "pull"}} |-> cy.tasks[q]])

\* the end of #discoverProfiles and the continuation of its caller: the
\* catch block when caught (emit "error", return []), otherwise return
\* profiles; start() then sets the interval and emits "ready"
DiscoverReturn(e, owner, caught, profiles) ==
    LET thrown == caught /\ EmitErrorThrows
        e1 == IF ~caught THEN e
              ELSE IF thrown THEN Logged(e, Event("throw", "error", "discovery"))
              ELSE Emit(e, "error", "discovery")
        returned == IF caught THEN {} ELSE profiles
    IN  IF owner = 0
        THEN [e |-> IF thrown THEN Logged(e1, Event("unhandled", "rejection", "discovery"))
                    ELSE e1,
              interval |-> FALSE, start |-> "none"]
        ELSE IF thrown
        THEN [e |-> e1, interval |-> FALSE, start |-> "rejected"]
        ELSE [e |-> Logged(Logged(e1, Event("arm", "discovery", "")),
                           [k |-> "emit", type |-> "ready", profile |-> "",
                            names |-> returned]),
              interval |-> TRUE, start |-> "resolved"]

(***************************************************************************)
(* Writing a run back to the state.                                        *)
(***************************************************************************)
Commit(e) ==
    /\ tokens' = e.tokens
    /\ hashes' = e.hashes
    /\ configsCache' = e.cache
    /\ timers' = e.timers
    /\ looseTimers' = e.loose
    /\ pullsIssued' = pullsIssued + e.sent
    /\ gone' = e.gone
    /\ log' = e.log

CommitReturn(fin, owner) ==
    /\ Commit(fin.e)
    /\ discoveryTimer' = IF fin.interval THEN "active" ELSE discoveryTimer
    /\ looseIntervals' = IF fin.interval /\ discoveryTimer = "active"
                         THEN looseIntervals + 1 ELSE looseIntervals
    /\ starts' = IF owner = 0 THEN starts ELSE [starts EXCEPT ![owner] = fin.start]

\* invocation cy goes on as next, or is dropped when it is over and none of
\* its #startProfile calls is running
Becomes(cy, next) ==
    IF next.phase = "done" /\ DOMAIN next.tasks = {}
    THEN Decr(cycles, cy)
    ELSE Incr(Decr(cycles, cy), next)

\* a #startProfile call of invocation cy has run up to an await or to its end
TaskStep(cy, p, e) ==
    LET waiting == cy.phase = "starting"
        rest == {q \in DOMAIN cy.tasks \ {p} : cy.tasks[q] # "resolved"}
        rejects == waiting /\ e.out = "rejected"
        completes == waiting /\ e.out = "resolved" /\ rest = {}
    IN  IF e.out = "awaiting"
        THEN /\ cycles' = Becomes(cy, [cy EXCEPT !.tasks[p] = "pull"])
             /\ Commit(e)
             /\ UNCHANGED <<discoveryTimer, looseIntervals, starts>>
        ELSE IF rejects \/ completes
        THEN /\ cycles' = Becomes(cy, Finished(cy, {p}))
             /\ CommitReturn(DiscoverReturn(e, cy.owner, rejects, cy.profiles),
                             cy.owner)
        ELSE /\ cycles' = Becomes(cy, [cy EXCEPT !.tasks =
                                             IF waiting THEN MapSet(@, p, "resolved")
                                             ELSE MapDelete(@, p)])
             /\ Commit(e)
             /\ UNCHANGED <<discoveryTimer, looseIntervals, starts>>

(***************************************************************************)
(* Initial state: a constructed AWSAppConfig, its listeners registered.    *)
(***************************************************************************)
Init ==
    /\ closed = FALSE
    /\ configPrefix = ""
    /\ timers = EmptyMap
    /\ looseTimers = EmptyMap
    /\ tokens = EmptyMap
    /\ hashes = EmptyMap
    /\ configsCache = EmptyMap
    /\ discoveryTimer = "unset"
    /\ looseIntervals = 0
    /\ errorListener \in BOOLEAN
    /\ starts = << >>
    /\ cycles = EmptyMap
    /\ cyclesRun = 0
    /\ timerPulls = EmptyMap
    /\ pullsIssued = 0
    /\ gone = {}
    /\ log = << >>

(***************************************************************************)
(* Actions.                                                                *)
(***************************************************************************)
\* setConfigPrefix(prefix).  The caller sets the prefix before start(), as
\* src/index.ts does.
SetConfigPrefix(prefix) ==
    /\ starts = << >>
    /\ prefix # configPrefix
    /\ configPrefix' = prefix
    /\ log' = <<Event("call", "setConfigPrefix", "")>>
    /\ UNCHANGED <<closed, timers, looseTimers, tokens, hashes, configsCache,
                   discoveryTimer, looseIntervals, errorListener, starts, cycles,
                   cyclesRun, timerPulls, pullsIssued, gone>>

\* start() up to its await: #discoverProfiles up to its await.  The caller
\* does not start an engine it has closed.
Start ==
    /\ ~closed
    /\ Len(starts) + 1 \in StartCalls
    /\ cyclesRun < MaxCycles
    /\ starts' = Append(starts, "pending")
    /\ cycles' = Incr(cycles, Cycle(Len(starts) + 1, "listing", {}, EmptyMap))
    /\ cyclesRun' = cyclesRun + 1
    /\ log' = DiscoverEnter(Logged(Run, Event("call", "start", ""))).log
    /\ UNCHANGED <<closed, configPrefix, timers, looseTimers, tokens, hashes,
                   configsCache, discoveryTimer, looseIntervals, errorListener,
                   timerPulls, pullsIssued, gone>>

\* close()
Close ==
    /\ ~closed
    /\ closed' = TRUE
    /\ discoveryTimer' = IF discoveryTimer = "active" THEN "cleared" ELSE discoveryTimer
    /\ timers' = EmptyMap
    /\ tokens' = EmptyMap
    /\ hashes' = EmptyMap
    /\ log' = <<Event("call", "close", "")>>
    /\ UNCHANGED <<configPrefix, looseTimers, configsCache, looseIntervals,
                   errorListener, starts, cycles, cyclesRun, timerPulls, pullsIssued,
                   gone>>

\* a tick of a running discovery interval: #discoverProfiles up to its await
DiscoveryTick ==
    /\ discoveryTimer = "active" \/ looseIntervals > 0
    /\ cyclesRun < MaxCycles
    /\ cycles' = Incr(cycles, Cycle(0, "listing", {}, EmptyMap))
    /\ cyclesRun' = cyclesRun + 1
    /\ log' = DiscoverEnter(Logged(Run, Event("tick", "discovery", ""))).log
    /\ UNCHANGED <<closed, configPrefix, timers, looseTimers, tokens, hashes,
                   configsCache, discoveryTimer, looseIntervals, errorListener,
                   starts, timerPulls, pullsIssued, gone>>

\* the response of listProfiles arrives: the rest of #discoverProfiles up to
\* await Promise.all, or to its end when nothing is new or listing failed
ListResponse(cy, r) ==
    /\ cy.phase = "listing"
    /\ LET profiles == FilterByPrefix(r.items)
           newProfiles == NewProfiles(profiles)
           e0 == Logged([Run EXCEPT !.gone = IF r.ok THEN @ \ newProfiles ELSE @],
                        [k |-> "response", type |-> "listProfiles",
                         profile |-> "", ok |-> r.ok, items |-> r.items,
                         rest |-> r.rest])
           order == SeqOf(newProfiles)
           sendAll[i \in 0..Len(order)] ==
               IF i = 0 THEN Emit(e0, "debug", "discovery")
               ELSE Request(sendAll[i - 1], "startSession", order[i])
       IN  IF r.ok /\ newProfiles # {}
           THEN /\ cycles' = Becomes(cy, Cycle(cy.owner, "starting", profiles,
                                                [p \in newProfiles |-> "session"]))
                /\ Commit(sendAll[Len(order)])
                /\ UNCHANGED <<discoveryTimer, looseIntervals, starts>>
           ELSE /\ cycles' = Becomes(cy, Finished(cy, {}))
                /\ CommitReturn(DiscoverReturn(e0, cy.owner, ~r.ok, profiles),
                                cy.owner)
    /\ UNCHANGED <<closed, configPrefix, errorListener, cyclesRun, timerPulls>>

\* the response of startSession arrives: the rest of #startProfile, which
\* runs #pollOnce up to its await
SessionResponse(cy, p, r) ==
    /\ Has(cy.tasks, p)
    /\ cy.tasks[p] = "session"
    /\ LET e0 == Logged(Run, [k |-> "response", type |-> "startSession",
                              profile |-> p, ok |-> r.kind = "token"])
           e1 == IF r.kind = "token"
                 THEN pollOnceEnter([e0 EXCEPT !.tokens = MapSet(@, p, r.token)], p)
                 ELSE [e0 EXCEPT !.out = "rejected"]
       IN  /\ pullsIssued + e1.sent <= MaxPulls
           /\ TaskStep(cy, p, e1)
    /\ UNCHANGED <<closed, configPrefix, errorListener, cyclesRun, timerPulls>>

\* what a step records of a getLatest response, from the response and the
\* digest recorded for the profile when it arrives: "notfound", "error",
\* "absent" (no Configuration), "blank" (white space only), "same" (the
\* digest of the payload is the recorded one), "unparsable" (another digest,
\* and the payload cannot be parsed) or "changed" (another digest, parsed)
PullClass(p, r) ==
    IF r.kind # "ok" THEN r.kind
    ELSE IF ~r.hasConfig THEN "absent"
    ELSE IF BlankTable[r.raw] THEN "blank"
    ELSE IF Has(hashes, p) /\ hashes[p] = HashTable[r.raw] THEN "same"
    ELSE IF ~ParseTable[r.raw, r.ct].ok THEN "unparsable"
    ELSE "changed"

PullEvent(p, r) ==
    [k |-> "response", type |-> "getLatest", profile |-> p,
     class |-> PullClass(p, r), next |-> r.next]

\* the response of the first getLatest of a #startProfile call arrives: the
\* rest of #pollOnce, then the end of #startProfile
StartPullResponse(cy, p, r) ==
    /\ Has(cy.tasks, p)
    /\ cy.tasks[p] = "pull"
    /\ TaskStep(cy, p, pollOnceResume(Logged(Run, PullEvent(p, r)), p, r))
    /\ UNCHANGED <<closed, configPrefix, errorListener, cyclesRun, timerPulls>>

\* a pending poll Timeout of profile p fires (the one #timers holds when
\* held, else one it no longer holds): #pollOnce up to its await
TimerFire(p, held) ==
    /\ IF held THEN Has(timers, p) /\ timers[p] = "armed"
       ELSE Count(looseTimers, p) > 0
    /\ LET e0 == Logged(IF held THEN [Run EXCEPT !.timers = MapSet(@, p, "fired")]
                        ELSE [Run EXCEPT !.loose = Decr(@, p)],
                        Event("tick", "poll", p))
           e1 == pollOnceEnter(e0, p)
       IN  /\ pullsIssued + e1.sent <= MaxPulls
           /\ timerPulls' = IF e1.out = "awaiting" THEN Incr(timerPulls, p)
                            ELSE timerPulls
           /\ Commit(IF e1.out = "rejected"
                     THEN Logged(e1, Event("unhandled", "rejection", p)) ELSE e1)
    /\ UNCHANGED <<closed, configPrefix, discoveryTimer, looseIntervals,
                   errorListener, starts, cycles, cyclesRun>>

\* the response of a getLatest sent by a timer arrives: the rest of #pollOnce
TimerPullResponse(p, r) ==
    /\ Count(timerPulls, p) > 0
    /\ timerPulls' = Decr(timerPulls, p)
    /\ LET e1 == pollOnceResume(Logged(Run, PullEvent(p, r)), p, r)
       IN  Commit(IF e1.out = "rejected"
                  THEN Logged(e1, Event("unhandled", "rejection", p)) ELSE e1)
    /\ UNCHANGED <<closed, configPrefix, discoveryTimer, looseIntervals,
                   errorListener, starts, cycles, cyclesRun>>

Next ==
    \/ \E prefix \in Prefixes : SetConfigPrefix(prefix)
    \/ Start
    \/ Close
    \/ DiscoveryTick
    \/ \E cy \in DOMAIN cycles, r \in ListOutcomes : ListResponse(cy, r)
    \/ \E cy \in DOMAIN cycles, p \in Names, r \in SessionOutcomes :
          SessionResponse(cy, p, r)
    \/ \E cy \in DOMAIN cycles, p \in Names, r \in PullOutcomes :
          StartPullResponse(cy, p, r)
    \/ \E p \in Names, held \in BOOLEAN : TimerFire(p, held)
    \/ \E p \in Names, r \in PullOutcomes : TimerPullResponse(p, r)

Spec == Init /\ [][Next]_vars

(***************************************************************************)
(* A caller that does more than src/index.ts: it writes through the object *)
(* that getConfigs() returned, and it calls start() again.                 *)
(***************************************************************************)
\* what a caller does with the view: view[n] = v for a new key, delete
\* view[n], view[n] = v for a key it has, view[n].parsed = v
ViewWrites == {"add", "delete", "replace", "field"}
\* the value the caller writes
CallerValue == StrVal("edited")

\* #configsCache after the write: { ...this.#configsCache } is a new object
\* whose properties hold the entry objects of #configsCache themselves, so
\* a write to a key of the view stays in the view and a write to a field of
\* an entry lands in the entry that #configsCache holds
ViewWrite(kind, n) ==
    IF kind = "field"
    THEN [configsCache EXCEPT ![n].parsed = CallerValue]
    ELSE configsCache

\* const view = getConfigs(), then one write through view
MutateView(kind, n) ==
    /\ IF kind = "add" THEN n \notin DOMAIN getConfigs ELSE n \in DOMAIN getConfigs
    /\ configsCache' = ViewWrite(kind, n)
    /\ log' = <<Event("call", "mutateView", n)>>
    /\ UNCHANGED <<closed, configPrefix, timers, looseTimers, tokens, hashes,
                   discoveryTimer, looseIntervals, errorListener, starts, cycles,
                   cyclesRun, timerPulls, pullsIssued, gone>>

NextView ==
    \/ Next
    \/ \E kind \in ViewWrites, n \in Names : MutateView(kind, n)

\* the engine with a caller that writes through the view
SpecView == Init /\ [][NextView]_vars

\* the further calls of start() the caller may make, by index
RepeatedStartCalls == {2}

\* start() called again, up to its await
StartAgain ==
    /\ ~closed
    /\ Len(starts) + 1 \in RepeatedStartCalls
    /\ cyclesRun < MaxCycles
    /\ starts' = Append(starts, "pending")
    /\ cycles' = Incr(cycles, Cycle(Len(starts) + 1, "listing", {}, EmptyMap))
    /\ cyclesRun' = cyclesRun + 1
    /\ log' = DiscoverEnter(Logged(Run, Event("call", "start", ""))).log
    /\ UNCHANGED <<closed, configPrefix, timers, looseTimers, tokens, hashes,
                   configsCache, discoveryTimer, looseIntervals, errorListener,
                   timerPulls, pullsIssued, gone>>

NextRestart ==
    \/ Next
    \/ StartAgain

\* the engine with a caller that calls start() twice
SpecRestart == Init /\ [][NextRestart]_vars

(***************************************************************************)
(* Observations used by the properties.                                    *)
(***************************************************************************)
LogIndex == 1..Len(log)
IsEvent(i, k, type) == log[i].k = k /\ log[i].type = type
Happened(k, type, p) == \E i \in LogIndex : IsEvent(i, k, type) /\ log[i].profile = p
Times(k, type, p) ==
    Cardinality({i \in LogIndex : IsEvent(i, k, type) /\ log[i].profile = p})
\* the class of the getLatest response for p that the last step received
Received(p, class) ==
    \E i \in LogIndex : /\ IsEvent(i, "response", "getLatest")
                        /\ log[i].profile = p
                        /\ log[i].class = class
\* getLatest requests for p in flight
RECURSIVE Copies(_)
Copies(S) ==
    IF S = {} THEN 0
    ELSE LET cy == CHOOSE x \in S : TRUE IN cycles[cy] + Copies(S \ {cy})

InFlightPulls(p) ==
    Count(timerPulls, p)
    + Copies({cy \in DOMAIN cycles : Has(cy.tasks, p) /\ cy.tasks[p] = "pull"})
\* poll Timeouts of p that have not fired and were not cleared
PendingTimers(p) ==
    (IF Has(timers, p) /\ timers[p] = "armed" THEN 1 ELSE 0) + Count(looseTimers, p)
\* some request to the provider is in flight
RequestInFlight ==
    \/ \E p \in Names : InFlightPulls(p) > 0
    \/ \E cy \in DOMAIN cycles : cy.phase = "listing" \/ DOMAIN cy.tasks # {}

(***************************************************************************)
(* C1.  For every profile at most one getLatest pull is in flight at any   *)
(* time, and a poll timer of the profile is pending only when no pull of   *)
(* it is in flight (the next poll is armed after the previous pull has     *)
(* completed), in every interleaving of start(), discovery cycles, timers  *)
(* and responses.  The engine breaks it: a discovery cycle that lists a    *)
(* profile whose first pull has not completed starts it a second time.     *)
(***************************************************************************)
C1_OnePullPerProfile ==
    \A p \in Names :
        /\ InFlightPulls(p) <= 1
        /\ PendingTimers(p) > 0 => InFlightPulls(p) = 0

(***************************************************************************)
(* C2.  Once close() has returned the cache is frozen: no later step       *)
(* changes what getConfigs() and getConfig() return, and no later step     *)
(* emits "update" (a step of the caller that sets another prefix aside).   *)
(* The engine breaks it: the continuation of a getLatest  *)
(* that was in flight at close() writes the cache and emits "update".      *)
(***************************************************************************)
C2_CacheFrozenAfterClose ==
    [][closed /\ configPrefix' = configPrefix =>
         /\ getConfigs' = getConfigs
         /\ \A n \in LookupNames : getConfig(n, Null)' = getConfig(n, Null)
         /\ \A p \in Names : ~Happened("emit", "update", p)']_vars

(***************************************************************************)
(* C3.  After close() has returned, the token map, the hash map and the    *)
(* timer map are empty and stay empty.  The engine breaks it: responses    *)
(* that arrive after close() store a token, a digest and a new timer.      *)
(***************************************************************************)
C3_MapsEmptyAfterClose ==
    closed => tokens = EmptyMap /\ hashes = EmptyMap /\ timers = EmptyMap

(***************************************************************************)
(* C4.  After close() has returned, no step sends a request to the         *)
(* provider and no step arms a poll or discovery timer.  The engine breaks *)
(* it: a listing in flight at close() is followed by startSession          *)
(* requests, and a pull in flight at close() re-arms its timer.            *)
(***************************************************************************)
C4_QuietAfterClose ==
    closed => \A i \in LogIndex : log[i].k \notin {"request", "arm"}

(***************************************************************************)
(* C5.  A pull that fails with "not found" emits exactly one               *)
(* profile_deleted notification and removes the token, hash and timer      *)
(* entries of the profile, and no getLatest is sent for that name until a  *)
(* later listing starts it as a new profile.  The engine breaks the last   *)
(* part when the profile was started twice (C1).                           *)
(***************************************************************************)
C5_DeletedStaysStopped ==
    \A p \in Names :
        /\ Received(p, "notfound") =>
              /\ Times("emit", "profile_deleted", p) = 1
              /\ ~Has(tokens, p) /\ ~Has(hashes, p) /\ ~Has(timers, p)
        /\ p \in gone => ~Happened("request", "getLatest", p)

(***************************************************************************)
(* C6.  As claimed: in every step the "update" notifications of a profile  *)
(* are as many as its cache writes, and there is one exactly when the step *)
(* received a pull of the profile whose non-blank payload has a digest     *)
(* other than the recorded one.  The engine breaks the count: a payload    *)
(* with a new digest that cannot be parsed is not written.                 *)
(***************************************************************************)
C6_UpdatesCountDigestChanges ==
    \A p \in Names :
        /\ Times("emit", "update", p) = Times("write", "cache", p)
        /\ Times("emit", "update", p) =
              (IF Received(p, "changed") \/ Received(p, "unparsable") THEN 1 ELSE 0)

(***************************************************************************)
(* C6, amended.  In every step the "update" notifications of a profile are *)
(* as many as its cache writes, and there is one exactly when the step     *)
(* received a pull of the profile whose non-blank payload has a digest     *)
(* other than the recorded one and can be parsed; a pull whose payload has *)
(* the recorded digest writes nothing and emits nothing.  Summed over a    *)
(* run, updates = cache writes = such pulls.                               *)
(***************************************************************************)
C6_UpdatesCountParsedChanges ==
    \A p \in Names :
        /\ Times("emit", "update", p) = Times("write", "cache", p)
        /\ Times("emit", "update", p) = (IF Received(p, "changed") THEN 1 ELSE 0)

\* a tracked profile was pulled again and the payload had the recorded digest
C6_SamePayloadPulled ==
    \E p \in Names : Received(p, "same") /\ Has(configsCache, p) /\ Has(timers, p)

(***************************************************************************)
(* C7.  When a pull of a profile fails with an error other than "not       *)
(* found", an "error" notification for the profile is emitted, its token,  *)
(* hash and cache entry are unchanged, and, the engine not being closed,   *)
(* its next poll is armed.  The engine breaks it when no listener for      *)
(* "error" is registered (C8): emit throws and the poll is never armed.    *)
(***************************************************************************)
SameAt(m1, m2, p) == (Has(m1, p) <=> Has(m2, p)) /\ (Has(m1, p) => m1[p] = m2[p])

C7_FailedPullKeepsPolling ==
    [][\A p \in Names :
          Received(p, "error")' =>
              /\ Happened("emit", "error", p)'
              /\ SameAt(tokens, tokens', p)
              /\ SameAt(hashes, hashes', p)
              /\ SameAt(configsCache, configsCache', p)
              /\ ~closed' => PendingTimers(p)' > 0]_vars

(***************************************************************************)
(* C8.  The engine does not depend on a subscriber: with no listener for   *)
(* "error", a failed pull still arms the next poll of the profile, and a   *)
(* failed listing still lets start() resolve.  The engine breaks it:       *)
(* EventEmitter.emit("error") throws when nothing listens.                 *)
(***************************************************************************)
C8_NoSubscriberNeeded ==
    ~errorListener =>
        /\ \A p \in Names : Received(p, "error") /\ ~closed => PendingTimers(p) > 0
        /\ \A k \in 1..Len(starts) : starts[k] # "rejected"
        /\ \A i \in LogIndex : log[i].k \notin {"throw", "unhandled"}

(***************************************************************************)
(* C9.  With a non-empty prefix set before start(), only profiles whose    *)
(* name starts with the prefix are tracked or polled: every key of the     *)
(* token, hash, timer and cache maps, every profile being started or       *)
(* pulled, and every startSession or getLatest request carries the prefix. *)
(***************************************************************************)
TrackedNames ==
    DOMAIN tokens \cup DOMAIN hashes \cup DOMAIN timers \cup DOMAIN configsCache
    \cup DOMAIN looseTimers \cup DOMAIN timerPulls
    \cup UNION {DOMAIN cy.tasks : cy \in DOMAIN cycles}

C9_OnlyPrefixedTracked ==
    configPrefix # "" =>
        /\ \A n \in TrackedNames : StartsWith(n, configPrefix)
        /\ \A i \in LogIndex :
              log[i].k = "request" /\ log[i].type \in {"startSession", "getLatest"}
                  => StartsWith(log[i].profile, configPrefix)

\* with prefix "dev4_", the provider listed dev4_x and other_y and the
\* step started dev4_x
C9_MixedListingFiltered ==
    /\ configPrefix = "dev4_"
    /\ \E i \in LogIndex : /\ IsEvent(i, "response", "listProfiles")
                           /\ log[i].ok
                           /\ log[i].items = {"dev4_x", "other_y"}
    /\ Happened("request", "startSession", "dev4_x")

(***************************************************************************)
(* C10.  For every name and default, getConfig(name, default) is the       *)
(* parsed value of the cache entry under prefix + name when there is one   *)
(* and default otherwise, and the keys of getConfigs() are the full        *)
(* profile names.  The engine breaks the first part for a name that an     *)
(* object inherits, such as "constructor": the in operator finds it.       *)
(***************************************************************************)
Defaults == {Null, NumVal(7)}

C10_LookupByPrefixedKey ==
    /\ \A n \in LookupNames, d \in Defaults :
          getConfig(n, d) =
              IF Has(configsCache, configPrefix \o n)
              THEN configsCache[configPrefix \o n].parsed
              ELSE d
    /\ DOMAIN getConfigs = DOMAIN configsCache
    /\ DOMAIN getConfigs \subseteq Names

(***************************************************************************)
(* C11.  getConfigs() returns a defensive copy: no write a caller makes    *)
(* through the returned object (a key added, deleted or replaced, a field  *)
(* of an entry changed) changes what getConfigs() and getConfig() return   *)
(* afterwards.  The engine breaks it: the copy is shallow, and a write to  *)
(* the parsed field of a returned entry is a write to the cached entry.    *)
(***************************************************************************)
C11_ViewIsDefensiveCopy ==
    [][(\E n \in Names : log' = <<Event("call", "mutateView", n)>>) =>
          /\ getConfigs' = getConfigs
          /\ \A n \in LookupNames : getConfig(n, Null)' = getConfig(n, Null)]_vars

(***************************************************************************)
(* C12.  start() is idempotent: after a second call there is still one     *)
(* recurring discovery timer, the one #discoveryTimer holds, so that       *)
(* close() cancels every discovery timer.  The engine breaks it: the       *)
(* second call sets a second interval and overwrites #discoveryTimer, and  *)
(* the first interval keeps running, also after close().                   *)
(***************************************************************************)
C12_StartTwiceAsOnce == looseIntervals = 0

(***************************************************************************)
(* C13.  When start() resolves and "ready" is emitted, no profile that the *)
(* initial discovery started has obtained a token and has its first        *)
(* getLatest still pending, also when the session start of another profile *)
(* failed.  The engine breaks it: the failure of one session start (C15)   *)
(* ends the discovery while the other profiles are still being started.    *)
(***************************************************************************)
ReadyEmitted == \E i \in LogIndex : IsEvent(i, "emit", "ready")

C13_ReadyAfterFirstPulls ==
    ReadyEmitted =>
        \A cy \in DOMAIN cycles :
            cy.owner # 0 => \A q \in DOMAIN cy.tasks : cy.tasks[q] # "pull"

(***************************************************************************)
(* C15.  A failed session start is recovered per profile: when the listing *)
(* succeeded, "ready" names exactly the listed profiles that pass the      *)
(* prefix filter, and an "error" notification tagged "discovery" is        *)
(* emitted only in a step that received a failed listing.  The engine      *)
(* breaks it: a failed session start rejects Promise.all, and the catch    *)
(* block of #discoverProfiles emits the error and returns [].              *)
(***************************************************************************)
ListingsReceived == {j \in LogIndex : IsEvent(j, "response", "listProfiles")}

C15_SessionFailureRecovered ==
    [][/\ Happened("emit", "error", "discovery")' =>
             \E j \in ListingsReceived' : ~log'[j].ok
       /\ \A i \in LogIndex' :
             IsEvent(i, "emit", "ready")' =>
                 IF ListingsReceived' # {}
                 THEN \A j \in ListingsReceived' :
                          log'[j].ok => log'[i].names = FilterByPrefix(log'[j].items)
                 ELSE \A cy \in DOMAIN cycles :
                          cy.owner # 0 /\ cy.phase = "starting"
                              => log'[i].names = cy.profiles]_vars

(***************************************************************************)
(* C14.  A discovery cycle sees every profile the provider knows: a        *)
(* profile that is listed on a later page only and passes the prefix       *)
(* filter is tracked already or is started by the cycle.  The engine       *)
(* breaks it: #listProfiles sends one request and returns its Items.       *)
(***************************************************************************)
C14_LaterPagesDiscovered ==
    \A j \in ListingsReceived :
        log[j].ok =>
            \A p \in FilterByPrefix(log[j].rest) :
                Has(timers, p) \/ Happened("request", "startSession", p)

(***************************************************************************)
(* C16.  When the listing of a discovery cycle fails, an "error"           *)
(* notification tagged "discovery" is emitted, the cycle returns an empty  *)
(* list, the token, hash, timer and cache state is unchanged, start() does *)
(* not fail, and, the engine not being closed, the discovery timer is      *)
(* armed, also when the cycle is the one of start().  The engine breaks it *)
(* when no listener for "error" is registered (C8): emit throws, start()   *)
(* rejects and never sets the discovery timer.                             *)
(***************************************************************************)
C16_FailedListingRetried ==
    [][(\E j \in ListingsReceived' : ~log'[j].ok) =>
          /\ Happened("emit", "error", "discovery")'
          /\ \A i \in LogIndex' : IsEvent(i, "emit", "ready")' => log'[i].names = {}
          /\ tokens' = tokens /\ hashes' = hashes
          /\ timers' = timers /\ configsCache' = configsCache
          /\ \A k \in 1..Len(starts') : starts'[k] # "rejected"
          /\ ~closed' => discoveryTimer' = "active"]_vars

(***************************************************************************)
(* C17.  The digest and the cache entry of a profile change together: in   *)
(* every state, a profile with a recorded digest has a cache entry, and    *)
(* the entry holds the parse of a payload that has the recorded digest.    *)
(***************************************************************************)
C17_DigestMatchesEntry ==
    \A p \in DOMAIN hashes :
        /\ Has(configsCache, p)
        /\ \E raw \in Payloads :
              /\ stableHash(raw) = hashes[p]
              /\ parseConfig(raw, configsCache[p].contentType).ok
              /\ parseConfig(raw, configsCache[p].contentType).value
                    = configsCache[p].parsed

\* a pull of a profile brought a changed payload, now recorded and cached
C17_ChangedPayloadStored ==
    \E p \in Names :
        Received(p, "changed") /\ Has(hashes, p) /\ Has(configsCache, p)

(***************************************************************************)
(* C18.  After every pull that returns a response (payload absent, blank,  *)
(* unchanged, changed or failing to parse) the stored token of the profile *)
(* is the next token of the response when there is one and the token       *)
(* stored before otherwise.  The engine breaks it: a response without      *)
(* Configuration, or with a payload that fails to parse, leaves the old    *)
(* token in place although the response carries a next token.              *)
(***************************************************************************)
Responded == {"absent", "blank", "same", "changed", "unparsable"}

C18_TokenAdvanced ==
    [][\A i \in LogIndex' :
          IsEvent(i, "response", "getLatest")' /\ log'[i].class \in Responded =>
              IF log'[i].next # None
              THEN /\ Has(tokens', log'[i].profile)
                   /\ tokens'[log'[i].profile] = log'[i].next
              ELSE SameAt(tokens, tokens', log'[i].profile)]_vars

(***************************************************************************)
(* C19.  When a pull returns no payload, or a payload that is blank, the   *)
(* cache entry and the digest of the profile are unchanged and, the engine *)
(* not being closed, the next poll of the profile is armed.  The engine    *)
(* breaks it: a response without Configuration returns from #pollOnce      *)
(* before the timer is set, and the profile is never polled again.         *)
(***************************************************************************)
C19_EmptyPullKeepsPolling ==
    [][\A p \in Names :
          Received(p, "absent")' \/ Received(p, "blank")' =>
              /\ SameAt(hashes, hashes', p)
              /\ SameAt(configsCache, configsCache', p)
              /\ ~closed' => PendingTimers(p)' > 0]_vars

(***************************************************************************)
(* C20.  When a changed JSON payload cannot be parsed, the cache entry and *)
(* the digest of the profile are what they were, no "update" is emitted,   *)
(* and, the engine not being closed, the profile stays tracked with its    *)
(* next poll armed.  The engine breaks the last part when no listener for  *)
(* "error" is registered (C8): emit throws and the poll is never armed.    *)
(***************************************************************************)
C20_MalformedPayloadSkipped ==
    [][\A p \in Names :
          Received(p, "unparsable")' =>
              /\ SameAt(hashes, hashes', p)
              /\ SameAt(configsCache, configsCache', p)
              /\ ~Happened("emit", "update", p)'
              /\ ~closed' => Has(timers', p) /\ PendingTimers(p)' > 0]_vars

(***************************************************************************)
(* C21.  A cache entry is created or replaced only by a pull of the same   *)
(* profile that finds another digest than the recorded one; every other    *)
(* step (another pull, a pull error, a deletion, a discovery cycle,        *)
(* setConfigPrefix, close()) leaves every entry as it is, so no cache key  *)
(* is ever removed and the last value of a deleted profile stays served.   *)
(***************************************************************************)
C21_CacheWrittenOnlyOnChange ==
    [][\A p \in Names :
          /\ Has(configsCache, p) => Has(configsCache', p)
          /\ ~SameAt(configsCache, configsCache', p) => Received(p, "changed")']_vars

\* a profile with a cache entry was deleted at the provider and stopped, and
\* its entry is still in the cache
C21_DeletedProfileStillServed ==
    \E p \in Names :
        /\ Received(p, "notfound")
        /\ ~Has(timers, p) /\ ~Has(tokens, p)
        /\ Has(configsCache, p)
        /\ getConfigs[p] = configsCache[p]

(***************************************************************************)
(* C22.  No zombie trackers: before close(), every profile name in the     *)
(* timer map has a token stored and has a poll timer pending or a          *)
(* getLatest in flight.  The engine breaks it: a pull sent by a timer that *)
(* returns no Configuration (C19), or that fails while nothing listens for *)
(* "error" (C8), ends without a new timer and leaves the fired one in the  *)
(* map, so the profile is never polled and never discovered again.         *)
(***************************************************************************)
C22_NoZombieTrackers ==
    ~closed =>
        \A p \in DOMAIN timers :
            /\ Has(tokens, p)
            /\ PendingTimers(p) > 0 \/ InFlightPulls(p) > 0

=============================================================================
